---- MODULE Spec2Model ----
(***************************************************************************)
(* Model of the Cypress support commands of deep_origin_challenge          *)
(* (cypress/support/commands.ts): the order-verification command           *)
(* assertSortedByKey, the module-level token cache used by loginUser,      *)
(* getCurrentUser and refreshSession, and the product request helpers.     *)
(*                                                                         *)
(* JavaScript values are tagged records [t, s, n]: t is the typeof tag,    *)
(* s the UTF-16 code units of a string, n the value of a number.           *)
(* A record handed to assertSortedByKey has a title (null or a string of   *)
(* letters) and an id (absent or a number), as the catalog's products do;  *)
(* a field holding strings in some records and numbers in others is not    *)
(* modelled.                                                               *)
(***************************************************************************)
EXTENDS Integers, Sequences, FiniteSets, TLC

VARIABLES
    array,          \* assertSortedByKey: the `array` argument
    sortCall,       \* assertSortedByKey: << [key, order] >> once called, << >> before
    sortRaised,     \* assertSortedByKey: TRUE when the call ended in `throw err`
    sortLog,        \* assertSortedByKey: the Cypress.log entries the call emitted
    accessToken,    \* commands.ts:114  let accessToken
    refreshToken,   \* commands.ts:115  let refreshToken
    lastCall,       \* the request helper called last, with its arguments
    lastRequest,    \* the descriptors that call handed to cy.request (<< >> if none)
    httpRaised      \* TRUE when that call ended in a thrown error / failed expect

vars == <<array, sortCall, sortRaised, sortLog,
          accessToken, refreshToken, lastCall, lastRequest, httpRaised>>

sortVars == <<array, sortCall, sortRaised, sortLog>>
httpVars == <<accessToken, refreshToken, lastCall, lastRequest, httpRaised>>

(***************************************************************************)
(* Bounds                                                                  *)
(***************************************************************************)
MaxLen == 3         \* longest input sequence handed to assertSortedByKey

(***************************************************************************)
(* JavaScript values                                                       *)
(***************************************************************************)
Undefined == [t |-> "undefined", s |-> <<>>, n |-> 0]
Null      == [t |-> "null",      s |-> <<>>, n |-> 0]
Str(s)    == [t |-> "string",    s |-> s,    n |-> 0]
Num(n)    == [t |-> "number",    s |-> <<>>, n |-> n]

\* UTF-16 code units of the titles used as inputs
apple  == <<97, 112, 112, 108, 101>>
Apple  == <<65, 112, 112, 108, 101>>
Banana == <<66, 97, 110, 97, 110, 97>>
Zeta   == <<90, 101, 116, 97>>
alpha  == <<97, 108, 112, 104, 97>>

TitleValues == {Null, Str(apple), Str(Apple), Str(Banana), Str(Zeta), Str(alpha)}
IdValues    == {Undefined, Num(1), Num(2)}
Records     == [id : IdValues, title : TitleValues]
Keys        == {"title", "id"}
Orders      == {"asc", "desc"}

\* every sequence of at most MaxLen records
Arrays == UNION {[1..n -> Records] : n \in 0..MaxLen}

(***************************************************************************)
(* assertSortedByKey: norm                                                 *)
(***************************************************************************)
\* String.prototype.toLocaleLowerCase on the code units A-Z
LowerUnit(c) == IF c >= 65 /\ c <= 90 THEN c + 32 ELSE c
\* faulty variant: the strings are compared as they are
toLocaleLowerCase_Identity(s) == s
toLocaleLowerCase(s) == [i \in DOMAIN s |-> LowerUnit(s[i])]

\* v == null (true of null and undefined)
IsNullish(v) == v.t \in {"null", "undefined"}

\* faulty variant: null and undefined are not replaced by ""
norm_KeepNull(v) ==
    IF v.t = "string" THEN Str(toLocaleLowerCase(v.s)) ELSE v
norm(v) ==
    IF IsNullish(v) THEN Str(<<>>)
    ELSE IF v.t = "string" THEN Str(toLocaleLowerCase(v.s))
    ELSE v

\* o[key]
Field(o, key) == IF key = "id" THEN o.id ELSE o.title

\* faulty variant: a missing id counts as a large id
IdOrZero_MissingLast(o) == IF IsNullish(o.id) THEN Num(99) ELSE o.id
\* o.id ?? 0
IdOrZero(o) == IF IsNullish(o.id) THEN Num(0) ELSE o.id

\* iteratees applied to one element: <<norm(o[key]), o.id ?? 0>>
Criteria(o, key) == <<norm(Field(o, key)), IdOrZero(o)>>

\* faulty variant: the tie-break follows the primary direction
OrdersOf_PrimaryDirection(order) == <<order, order>>
\* orders = [order, "asc"]
OrdersOf(order) == <<order, "asc">>

(***************************************************************************)
(* Cypress._.orderBy as called at commands.ts:254: the relational          *)
(* operators of JavaScript on the criteria, lodash's compareAscending      *)
(* and compareMultiple, and a stable sort of {criteria, index, value}.     *)
(***************************************************************************)
\* ToNumber: "" is 0, a string of letters is NaN (titles hold letters only)
ToNumber(v) ==
    IF v.t = "number" THEN [nan |-> FALSE, n |-> v.n]
    ELSE IF v.t = "null" THEN [nan |-> FALSE, n |-> 0]
    ELSE IF v.t = "string" /\ Len(v.s) = 0 THEN [nan |-> FALSE, n |-> 0]
    ELSE [nan |-> TRUE, n |-> 0]

\* s < t on strings: by code units, a proper prefix first
StrLess(s, t) ==
    \E k \in 1..Len(t) :
        /\ \A j \in 1..(k - 1) : j <= Len(s) /\ s[j] = t[j]
        /\ (k > Len(s) \/ s[k] < t[k])

\* a < b
JsLess(a, b) ==
    IF a.t = "string" /\ b.t = "string" THEN StrLess(a.s, b.s)
    ELSE LET x == ToNumber(a)
             y == ToNumber(b)
         IN  ~x.nan /\ ~y.nan /\ x.n < y.n

compareAscending(value, other) ==
    IF value = other THEN 0
    ELSE IF \/ (other.t # "null" /\ JsLess(other, value))
            \/ (value.t = "null" /\ other.t # "undefined")
            \/ value.t = "undefined"
         THEN 1
    ELSE IF \/ (value.t # "null" /\ JsLess(value, other))
            \/ (other.t = "null" /\ value.t # "undefined")
            \/ other.t = "undefined"
         THEN -1
    ELSE 0

\* `return result * (order == 'desc' ? -1 : 1)` (result itself past the orders given)
Directed(result, orders, index) ==
    IF index > Len(orders) THEN result
    ELSE result * (IF orders[index] = "desc" THEN -1 ELSE 1)

RECURSIVE compareFrom(_, _, _, _)
FirstNonZero(result, object, other, orders, index) ==
    IF result # 0 THEN Directed(result, orders, index)
    ELSE compareFrom(object, other, orders, index + 1)

compareFrom(object, other, orders, index) ==
    IF index > Len(object.criteria) THEN object.index - other.index
    ELSE FirstNonZero(compareAscending(object.criteria[index], other.criteria[index]),
                      object, other, orders, index)

compareMultiple(object, other, orders) == compareFrom(object, other, orders, 1)

\* entries.sort(comparer) as a stable insertion sort: x is placed before the
\* first entry that compares greater than it
InsertAt(sortedEntries, x, at) ==
    [i \in 1..(Len(sortedEntries) + 1) |->
        IF i < at THEN sortedEntries[i]
        ELSE IF i = at THEN x
        ELSE sortedEntries[i - 1]]

InsertEntry(sortedEntries, x, orders) ==
    IF \A k \in 1..Len(sortedEntries) : compareMultiple(x, sortedEntries[k], orders) >= 0
    THEN Append(sortedEntries, x)
    ELSE InsertAt(sortedEntries, x,
                  CHOOSE k \in 1..Len(sortedEntries) :
                      /\ compareMultiple(x, sortedEntries[k], orders) < 0
                      /\ \A m \in 1..(k - 1) : compareMultiple(x, sortedEntries[m], orders) >= 0)

RECURSIVE SortEntries(_, _, _)
SortEntries(entries, n, orders) ==
    IF n = 0 THEN <<>>
    ELSE InsertEntry(SortEntries(entries, n - 1, orders), entries[n], orders)

\* baseOrderBy: map to {criteria, index, value}, sort, map back to the values
EntriesOf(arr, key) ==
    [i \in 1..Len(arr) |->
        [criteria |-> Criteria(arr[i], key), index |-> i - 1, value |-> arr[i]]]

ValuesOf(entries) == [i \in 1..Len(entries) |-> entries[i].value]

orderBy(arr, key, orders) == ValuesOf(SortEntries(EntriesOf(arr, key), Len(arr), orders))

(***************************************************************************)
(* assertSortedByKey                                                       *)
(***************************************************************************)
\* Cypress._.isEqual and chai's deep.equal on records of primitives
isEqual(a, b) == a = b

\* faulty variant: the last mismatch instead of the first
FirstMismatchIndex_Last(arr, sorted) ==
    LET bad == {i \in 1..Len(arr) : ~(arr[i] = sorted[i])}
    IN  IF bad = {} THEN -1
        ELSE (CHOOSE i \in bad : \A j \in bad : i >= j) - 1
\* array.findIndex((item, i) => !isEqual(item, sorted[i])), 0-based, -1 if none
FirstMismatchIndex(arr, sorted) ==
    LET bad == {i \in 1..Len(arr) : ~isEqual(arr[i], sorted[i])}
    IN  IF bad = {} THEN -1
        ELSE (CHOOSE i \in bad : \A j \in bad : i <= j) - 1

\* faulty variant: the index is logged 1-based
MismatchLog_OneBased(arr, sorted, key, order) ==
    LET firstMismatchIndex == FirstMismatchIndex(arr, sorted)
    IN  IF firstMismatchIndex >= 0
        THEN << [index    |-> firstMismatchIndex + 1,
                 expected |-> sorted[firstMismatchIndex + 1],
                 actual   |-> arr[firstMismatchIndex + 1],
                 key      |-> key,
                 order    |-> order] >>
        ELSE <<>>

\* Cypress.log({...}) when firstMismatchIndex >= 0
LogEntries(firstMismatchIndex, arr, sorted, key, order) ==
    IF firstMismatchIndex >= 0
    THEN << [index    |-> firstMismatchIndex,
             expected |-> sorted[firstMismatchIndex + 1],
             actual   |-> arr[firstMismatchIndex + 1],
             key      |-> key,
             order    |-> order] >>
    ELSE <<>>

\* the catch block: the Cypress.log entries emitted before `throw err`
MismatchLog(arr, sorted, key, order) ==
    LogEntries(FirstMismatchIndex(arr, sorted), arr, sorted, key, order)

Sorted(arr, key, order) == orderBy(arr, key, OrdersOf(order))

\* expect(array).to.deep.equal(sorted) passes
DeepEqual(arr, sorted) == arr = sorted

\* the try/catch around expect(array).to.deep.equal(sorted)
Verdict(arr, sorted, key, order) ==
    IF DeepEqual(arr, sorted)
    THEN [raised |-> FALSE, log |-> <<>>]
    ELSE [raised |-> TRUE, log |-> MismatchLog(arr, sorted, key, order)]

Applied(verdict) ==
    /\ sortRaised' = verdict.raised
    /\ sortLog' = verdict.log

assertSortedByKey(key, order) ==
    /\ sortCall = <<>>
    /\ Applied(Verdict(array, Sorted(array, key, order), key, order))
    /\ sortCall' = << [key |-> key, order |-> order] >>
    /\ UNCHANGED array
    /\ UNCHANGED httpVars

HttpIdle ==
    /\ accessToken = Null
    /\ refreshToken = Null
    /\ lastCall = [op |-> "none"]
    /\ lastRequest = <<>>
    /\ httpRaised = FALSE

SortInit ==
    /\ array \in Arrays
    /\ sortCall = <<>>
    /\ sortRaised = FALSE
    /\ sortLog = <<>>
    /\ HttpIdle

SortNext == \E key \in Keys, order \in Orders : assertSortedByKey(key, order)

SortSpec == SortInit /\ [][SortNext]_vars

(***************************************************************************)
(* HTTP helpers: cy.request and the server's answers                       *)
(***************************************************************************)
StatusOK == 200                 \* expect(resp.status).to.eq(200)
ExpiresInMinsDefault == 30      \* expiresInMins = 30

\* "a1", "a2": access tokens the server hands out; "r1", "r2": refresh tokens
AccessTokens  == {Str(<<97, 49>>), Str(<<97, 50>>)}
RefreshTokens == {Str(<<114, 49>>), Str(<<114, 50>>)}

\* status codes the server answers with: OK, Created, Bad Request, Unauthorized
Statuses  == {200, 201, 400, 401}
Responses == [status : Statuses, accessToken : AccessTokens, refreshToken : RefreshTokens]

Usernames     == {"emilys", "nobody"}
Passwords     == {"emilyspass"}
ExpiresInputs == {Undefined, Num(60)}
\* refreshSession's first argument: omitted, "", or a token string
ProvidedInputs == {Undefined, Str(<<>>)} \cup RefreshTokens

\* !v is false
Truthy(v) ==
    /\ ~IsNullish(v)
    /\ ~(v.t = "string" /\ Len(v.s) = 0)
    /\ ~(v.t = "number" /\ v.n = 0)

\* a parameter default: `p = d` applies when the argument is undefined
OrDefault(v, d) == IF v.t = "undefined" THEN d ELSE v

\* cy.request (failOnStatusCode left at its default) fails the command, and
\* never runs the .then callback, on a status outside 2xx/3xx
RequestFails(status) == ~(status >= 200 /\ status <= 399)

\* faulty variant: the status is not compared with 200
ThenPasses_AnySuccess(resp) == ~RequestFails(resp.status)
\* the .then callback returns normally: expect(resp.status).to.eq(200) passed
ThenPasses(resp) == ~RequestFails(resp.status) /\ resp.status = StatusOK

Request(method, url, headers, body, qs) ==
    [method |-> method, url |-> url, headers |-> headers, body |-> body, qs |-> qs]

JsonHeaders == {<<"Content-Type", "application/json">>}

\* faulty variant: the refresh token of the response is not stored
loginUser_AccessTokenOnly(username, password, expiresInMinsArg, resp) ==
    LET expiresInMins == OrDefault(expiresInMinsArg, Num(ExpiresInMinsDefault))
    IN  /\ lastCall' = [op |-> "loginUser", username |-> username, password |-> password,
                        expiresInMins |-> expiresInMinsArg, resp |-> resp]
        /\ lastRequest' = << Request("POST", <<"auth", "login">>, JsonHeaders,
                                     [username |-> username, password |-> password,
                                      expiresInMins |-> expiresInMins], {}) >>
        /\ IF ThenPasses(resp)
           THEN /\ accessToken' = resp.accessToken
                /\ UNCHANGED refreshToken
                /\ httpRaised' = FALSE
           ELSE /\ UNCHANGED <<accessToken, refreshToken>>
                /\ httpRaised' = TRUE
        /\ UNCHANGED sortVars

loginUser(username, password, expiresInMinsArg, resp) ==
    LET expiresInMins == OrDefault(expiresInMinsArg, Num(ExpiresInMinsDefault))
    IN  /\ lastCall' = [op |-> "loginUser", username |-> username, password |-> password,
                        expiresInMins |-> expiresInMinsArg, resp |-> resp]
        /\ lastRequest' = << Request("POST", <<"auth", "login">>, JsonHeaders,
                                     [username |-> username, password |-> password,
                                      expiresInMins |-> expiresInMins], {}) >>
        /\ IF ThenPasses(resp)
           THEN /\ accessToken' = resp.accessToken
                /\ refreshToken' = resp.refreshToken
                /\ httpRaised' = FALSE
           ELSE /\ UNCHANGED <<accessToken, refreshToken>>
                /\ httpRaised' = TRUE
        /\ UNCHANGED sortVars

\* faulty variant: the request is sent without looking at the cached token
getCurrentUser_NoGuard(resp) ==
    /\ lastCall' = [op |-> "getCurrentUser", resp |-> resp]
    /\ lastRequest' = << Request("GET", <<"auth", "me">>,
                                 {<<"Authorization", <<"Bearer", accessToken>> >>},
                                 Undefined, {}) >>
    /\ httpRaised' = ~ThenPasses(resp)
    /\ UNCHANGED <<accessToken, refreshToken>>
    /\ UNCHANGED sortVars

getCurrentUser(resp) ==
    /\ lastCall' = [op |-> "getCurrentUser", resp |-> resp]
    /\ IF ~Truthy(accessToken)
       THEN /\ lastRequest' = <<>>
            /\ httpRaised' = TRUE
       ELSE /\ lastRequest' = << Request("GET", <<"auth", "me">>,
                                         {<<"Authorization", <<"Bearer", accessToken>> >>},
                                         Undefined, {}) >>
            /\ httpRaised' = ~ThenPasses(resp)
    /\ UNCHANGED <<accessToken, refreshToken>>
    /\ UNCHANGED sortVars

refreshSession(providedRefreshToken, expiresInMinsArg, resp) ==
    LET expiresInMins == OrDefault(expiresInMinsArg, Num(ExpiresInMinsDefault))
        tokenToUse    == IF Truthy(providedRefreshToken) THEN providedRefreshToken
                         ELSE refreshToken
    IN  /\ lastCall' = [op |-> "refreshSession", providedRefreshToken |-> providedRefreshToken,
                        expiresInMins |-> expiresInMinsArg, resp |-> resp]
        /\ IF ~Truthy(tokenToUse)
           THEN /\ lastRequest' = <<>>
                /\ httpRaised' = TRUE
                /\ UNCHANGED <<accessToken, refreshToken>>
           ELSE /\ lastRequest' = << Request("POST", <<"auth", "refresh">>, JsonHeaders,
                                             [refreshToken |-> tokenToUse,
                                              expiresInMins |-> expiresInMins], {}) >>
                /\ IF ThenPasses(resp)
                   THEN /\ accessToken' = resp.accessToken
                        /\ refreshToken' = resp.refreshToken
                        /\ httpRaised' = FALSE
                   ELSE /\ UNCHANGED <<accessToken, refreshToken>>
                        /\ httpRaised' = TRUE
        /\ UNCHANGED sortVars

(***************************************************************************)
(* Product request helpers: each hands one descriptor to cy.request and    *)
(* returns the raw response.                                               *)
(***************************************************************************)
ProductIds   == {1, 2}
PageInputs   == {Undefined, Num(0), Num(5)}
Queries      == {"phone"}
SelectInputs == {<<"id", "title">>, <<"id", "title", "price", "description">>}
SortKeys     == {"id", "title"}
Categories   == {"smartphones", "laptops", "beauty"}

\* ...(v != null && { name: v })
Spread(name, v) == IF IsNullish(v) THEN {} ELSE {<<name, v>>}

\* Each helper only issues its request: the tokens are untouched, and the
\* command fails when cy.request fails on the status.
getProducts(productId, status) ==
    /\ lastCall' = [op |-> "getProducts", productId |-> productId]
    /\ lastRequest' = << Request("GET", <<"products", ToString(productId)>>, {}, Undefined, {}) >>
    /\ httpRaised' = RequestFails(status)
    /\ UNCHANGED <<accessToken, refreshToken>>
    /\ UNCHANGED sortVars

getAllProducts(limit, skip, status) ==
    /\ lastCall' = [op |-> "getAllProducts", limit |-> limit, skip |-> skip]
    /\ lastRequest' = << Request("GET", <<"products">>, {}, Undefined,
                               {<<"limit", limit>>, <<"skip", skip>>}) >>
    /\ httpRaised' = RequestFails(status)
    /\ UNCHANGED <<accessToken, refreshToken>>
    /\ UNCHANGED sortVars

searchProduct(q, limit, skip, status) ==
    /\ lastCall' = [op |-> "searchProduct", q |-> q, limit |-> limit, skip |-> skip]
    /\ lastRequest' = << Request("GET", <<"products", "search">>, {}, Undefined,
                               {<<"q", q>>} \cup Spread("limit", limit) \cup Spread("skip", skip)) >>
    /\ httpRaised' = RequestFails(status)
    /\ UNCHANGED <<accessToken, refreshToken>>
    /\ UNCHANGED sortVars

filterByMultipleKeys(select, limit, skip, status) ==
    /\ lastCall' = [op |-> "filterByMultipleKeys", select |-> select, limit |-> limit, skip |-> skip]
    /\ lastRequest' = << Request("GET", <<"products">>, {}, Undefined,
                               {<<"select", select>>} \cup Spread("limit", limit) \cup Spread("skip", skip)) >>
    /\ httpRaised' = RequestFails(status)
    /\ UNCHANGED <<accessToken, refreshToken>>
    /\ UNCHANGED sortVars

sortByNOrder(sortBy, order, status) ==
    /\ lastCall' = [op |-> "sortByNOrder", sortBy |-> sortBy, order |-> order]
    /\ lastRequest' = << Request("GET", <<"products">>, {}, Undefined,
                               {<<"sortBy", sortBy>>, <<"order", order>>}) >>
    /\ httpRaised' = RequestFails(status)
    /\ UNCHANGED <<accessToken, refreshToken>>
    /\ UNCHANGED sortVars

getProductsCategories(status) ==
    /\ lastCall' = [op |-> "getProductsCategories"]
    /\ lastRequest' = << Request("GET", <<"products", "categories">>, {}, Undefined, {}) >>
    /\ httpRaised' = RequestFails(status)
    /\ UNCHANGED <<accessToken, refreshToken>>
    /\ UNCHANGED sortVars

getAllProductsCategoryList(status) ==
    /\ lastCall' = [op |-> "getAllProductsCategoryList"]
    /\ lastRequest' = << Request("GET", <<"products", "category-list">>, {}, Undefined, {}) >>
    /\ httpRaised' = RequestFails(status)
    /\ UNCHANGED <<accessToken, refreshToken>>
    /\ UNCHANGED sortVars

\* the registered callback takes no parameter: the argument is dropped
getProductByCategory(category, status) ==
    /\ lastCall' = [op |-> "getProductByCategory", category |-> category]
    /\ lastRequest' = << Request("GET", <<"products", "category", "smartphones">>, {}, Undefined, {}) >>
    /\ httpRaised' = RequestFails(status)
    /\ UNCHANGED <<accessToken, refreshToken>>
    /\ UNCHANGED sortVars

(***************************************************************************)
(* Specifications                                                          *)
(***************************************************************************)
SortIdle ==
    /\ array = <<>>
    /\ sortCall = <<>>
    /\ sortRaised = FALSE
    /\ sortLog = <<>>

\* the state after the support file is loaded
Init == SortIdle /\ HttpIdle

Next ==
    \/ \E u \in Usernames, p \in Passwords, e \in ExpiresInputs, resp \in Responses :
          loginUser(u, p, e, resp)
    \/ \E resp \in Responses : getCurrentUser(resp)
    \/ \E t \in ProvidedInputs, e \in ExpiresInputs, resp \in Responses :
          refreshSession(t, e, resp)
    \/ \E id \in ProductIds, st \in Statuses : getProducts(id, st)
    \/ \E l \in PageInputs, k \in PageInputs, st \in Statuses : getAllProducts(l, k, st)
    \/ \E q \in Queries, l \in PageInputs, k \in PageInputs, st \in Statuses :
          searchProduct(q, l, k, st)
    \/ \E sel \in SelectInputs, l \in PageInputs, k \in PageInputs, st \in Statuses :
          filterByMultipleKeys(sel, l, k, st)
    \/ \E sb \in SortKeys, o \in Orders, st \in Statuses : sortByNOrder(sb, o, st)
    \/ \E st \in Statuses : getProductsCategories(st)
    \/ \E st \in Statuses : getAllProductsCategoryList(st)
    \/ \E c \in Categories, st \in Statuses : getProductByCategory(c, st)

Spec == Init /\ [][Next]_vars

(***************************************************************************)
(* Properties of assertSortedByKey (checked under SortSpec)                *)
(***************************************************************************)
\* The normalization as the specification words it: null/absent -> "",
\* strings lower-cased, other values unchanged.
LowerCased(s) == [i \in DOMAIN s |-> IF s[i] \in 65..90 THEN s[i] + 32 ELSE s[i]]
Normalized(v) ==
    IF v.t \in {"null", "undefined"} THEN Str(<<>>)
    ELSE IF v.t = "string" THEN Str(LowerCased(v.s))
    ELSE v
NormalizedField(o, key) == Normalized(IF key = "id" THEN o.id ELSE o.title)
\* the tie-break value: id, a missing id counting as 0
TieId(o) == IF o.id.t = "number" THEN o.id.n ELSE 0

Called(key, order) == sortCall = << [key |-> key, order |-> order] >>
CalledKey == sortCall[1].key
CalledOrder == sortCall[1].order
Reverse(q) == [i \in 1..Len(q) |-> q[Len(q) + 1 - i]]

\* arr is ordered ascending by the normalized field, ties in non-decreasing id order
OrderedAscending(arr, key) ==
    \A i, j \in 1..Len(arr) :
        i < j =>
            LET a == NormalizedField(arr[i], key)
                b == NormalizedField(arr[j], key)
            IN  /\ ~JsLess(b, a)
                /\ (a = b => TieId(arr[i]) <= TieId(arr[j]))

\* arr is strictly ascending by the normalized field
StrictlyAscending(arr, key) ==
    \A i, j \in 1..Len(arr) :
        i < j => JsLess(NormalizedField(arr[i], key), NormalizedField(arr[j], key))

\* C1: every sequence (the empty and the one-element sequence included) that is
\* already ordered ascending by the normalized field, with records of equal
\* normalized value in non-decreasing id order, passes the ascending assertion.
C1_SortedInputPasses ==
    \A key \in Keys :
        (Called(key, "asc") /\ OrderedAscending(array, key)) => ~sortRaised

\* C1 witness: a three-element input with a tied pair and a strictly ordered
\* pair has passed the ascending assertion by title.
C1_Witness ==
    /\ Called("title", "asc")
    /\ Len(array) = 3
    /\ OrderedAscending(array, "title")
    /\ NormalizedField(array[1], "title") = NormalizedField(array[2], "title")
    /\ TieId(array[1]) < TieId(array[2])
    /\ array[1].title # array[2].title
    /\ JsLess(NormalizedField(array[2], "title"), NormalizedField(array[3], "title"))
    /\ ~sortRaised

LoggedAt(at, expected) ==
    /\ at \in 1..Len(array)
    /\ array[at] # expected[at]
    /\ \A j \in 1..(at - 1) : array[j] = expected[j]
    /\ sortLog[1].expected = expected[at]
    /\ sortLog[1].actual = array[at]

RaisedAtLowestMismatch(expected) ==
    (\E i \in 1..Len(array) : array[i] # expected[i]) =>
        /\ sortRaised
        /\ Len(sortLog) = 1
        /\ LoggedAt(sortLog[1].index + 1, expected)

\* C2: whenever the recomputed expected order differs from the input, the call
\* ends in a raised failure, and the logged entry carries the lowest index at
\* which input and expected differ, with the expected and the actual element.
C2_MismatchRaisesAtLowestIndex ==
    sortCall # <<>> => RaisedAtLowestMismatch(Sorted(array, CalledKey, CalledOrder))

\* C2 witness: a failure whose first mismatch is not at index 0.
C2_Witness ==
    /\ sortCall # <<>>
    /\ sortRaised
    /\ Len(sortLog) = 1
    /\ sortLog[1].index = 1
    /\ sortLog[1].expected # sortLog[1].actual

\* C3: the id tie-break is ascending for both directions: an input with two
\* adjacent records of equal normalized primary value is accepted only if the
\* earlier id is <= the later id; two records of equal title fail with the
\* larger id first and pass with the smaller id first, in either direction.
C3_TieBreakAscendingBothDirections ==
    sortCall # <<>> =>
        /\ (\E i \in 1..(Len(array) - 1) :
                /\ NormalizedField(array[i], CalledKey) = NormalizedField(array[i + 1], CalledKey)
                /\ TieId(array[i]) > TieId(array[i + 1]))
             => sortRaised
        /\ (/\ Len(array) = 2
            /\ CalledKey = "title"
            /\ NormalizedField(array[1], "title") = NormalizedField(array[2], "title"))
             => (sortRaised <=> TieId(array[1]) > TieId(array[2]))

\* C3 witness: descending by title, equal titles, ids 1 then 2: accepted.
C3_Witness ==
    /\ Called("title", "desc")
    /\ array = << [id |-> Num(1), title |-> Str(apple)], [id |-> Num(2), title |-> Str(apple)] >>
    /\ ~sortRaised

IsStringTitle(o) == o.title.t = "string"
LoweredTitle(o) == LowerCased(o.title.s)
\* the lower-cased titles are non-decreasing
LoweredNonDecreasing(arr) ==
    \A i, j \in 1..Len(arr) : i < j => ~StrLess(LoweredTitle(arr[j]), LoweredTitle(arr[i]))
\* records whose lower-cased titles are equal appear in ascending id order
TiedInIdOrder(arr) ==
    \A i, j \in 1..Len(arr) :
        (i < j /\ LoweredTitle(arr[i]) = LoweredTitle(arr[j])) => TieId(arr[i]) <= TieId(arr[j])
DistinctIds(arr) == \A i, j \in 1..Len(arr) : i # j => arr[i].id # arr[j].id
\* every record has a string title and an id, and no two ids are equal
StringTitlesDistinctIds(arr) ==
    /\ \A i \in 1..Len(arr) : IsStringTitle(arr[i]) /\ arr[i].id.t = "number"
    /\ DistinctIds(arr)
TitlesAre(arr, titles) ==
    /\ Len(arr) = Len(titles)
    /\ \A i \in 1..Len(arr) : arr[i].title = Str(titles[i])
ZetaAlphaInput ==
    << [id |-> Num(1), title |-> Str(Zeta)], [id |-> Num(2), title |-> Str(alpha)] >>

\* C4 as stated: strings are compared on their lower-cased form, and a sequence
\* of records with distinct ids is accepted ascending exactly when the
\* lower-cased values are non-decreasing.
C4_AcceptedIffLoweredNonDecreasing ==
    (Called("title", "asc") /\ StringTitlesDistinctIds(array)) =>
        (~sortRaised <=> LoweredNonDecreasing(array))

\* C4 amended: a sequence of records with distinct ids is accepted ascending
\* exactly when the lower-cased values are non-decreasing and records of equal
\* lower-cased value are in ascending id order; ["apple", "Banana"] passes,
\* ["Banana", "apple"] fails, and [{id:1,title:"Zeta"},{id:2,title:"alpha"}]
\* fails with the mismatch reported at index 0.
C4_AcceptedIffLoweredAndTiesOrdered ==
    Called("title", "asc") =>
        /\ StringTitlesDistinctIds(array) =>
              (~sortRaised <=> (LoweredNonDecreasing(array) /\ TiedInIdOrder(array)))
        /\ TitlesAre(array, <<apple, Banana>>) => ~sortRaised
        /\ TitlesAre(array, <<Banana, apple>>) => sortRaised
        /\ array = ZetaAlphaInput =>
              (sortRaised /\ Len(sortLog) = 1 /\ sortLog[1].index = 0)

\* C4 witness: the literal input Zeta, alpha has failed at index 0.
C4_Witness ==
    /\ Called("title", "asc")
    /\ array = ZetaAlphaInput
    /\ sortRaised
    /\ sortLog[1].index = 0

NullTitle(o) == o.title.t \in {"null", "undefined"}
NonEmptyStringTitle(o) == o.title.t = "string" /\ Len(o.title.s) > 0
\* the records of null title come first, by non-decreasing id, and the rest
\* follows in ascending order
NullsFirstRestOrdered(arr) ==
    \E k \in 1..Len(arr) :
        /\ \A i \in 1..k : NullTitle(arr[i])
        /\ \A i \in 1..(k - 1) : TieId(arr[i]) <= TieId(arr[i + 1])
        /\ \A i \in (k + 1)..Len(arr) : NonEmptyStringTitle(arr[i])
        /\ LoweredNonDecreasing(SubSeq(arr, k + 1, Len(arr)))
        /\ TiedInIdOrder(SubSeq(arr, k + 1, Len(arr)))

\* C5: a record whose sort field is null counts as "" and must precede every
\* record with a non-empty string value in ascending order: a null after a
\* non-empty string fails, nulls placed first (the rest in order) pass.
C5_NullSortsBeforeStrings ==
    Called("title", "asc") =>
        /\ (\E i, j \in 1..Len(array) :
                i < j /\ NonEmptyStringTitle(array[i]) /\ NullTitle(array[j]))
             => sortRaised
        /\ NullsFirstRestOrdered(array) => ~sortRaised

\* C5 witness: a null title placed before two titles in order has passed.
C5_Witness ==
    /\ Called("title", "asc")
    /\ Len(array) = 3
    /\ NullsFirstRestOrdered(array)
    /\ NullTitle(array[1])
    /\ NonEmptyStringTitle(array[2])
    /\ ~sortRaised

\* first position (0-based) at which two sequences of equal length differ, -1 if none
FirstDifference(p, q) ==
    LET d == {i \in 1..Len(p) : p[i] # q[i]}
    IN  IF d = {} THEN -1 ELSE (CHOOSE i \in d : \A j \in d : i <= j) - 1

ReversalFailsAtFirstDifference ==
    /\ sortRaised
    /\ Len(sortLog) = 1
    /\ sortLog[1].index = FirstDifference(Reverse(array), array)

\* C6 as stated: for every sequence S strictly ordered by the field, the
\* ascending assertion on the reversal of S fails, reporting the first position
\* at which S and its reversal differ.  (array is the reversal, Reverse(array) is S.)
C6_ReversalFails ==
    \A key \in Keys :
        (Called(key, "asc") /\ StrictlyAscending(Reverse(array), key))
            => ReversalFailsAtFirstDifference

\* C6 amended: the same for every strictly ordered S of at least two elements.
C6_ReversalOfTwoOrMoreFails ==
    \A key \in Keys :
        (Called(key, "asc") /\ Len(array) >= 2 /\ StrictlyAscending(Reverse(array), key))
            => ReversalFailsAtFirstDifference

\* C6 witness: the reversal of a strictly ordered three-element sequence has failed.
C6_Witness ==
    /\ Called("title", "asc")
    /\ Len(array) = 3
    /\ StrictlyAscending(Reverse(array), "title")
    /\ sortRaised
    /\ sortLog[1].index = 0

(***************************************************************************)
(* Properties of the token cache and the request helpers (checked under    *)
(* Spec).  Every helper records its own name in lastCall, so lastCall'.op  *)
(* names the helper a step ran.                                            *)
(***************************************************************************)
Unset(token) == ~Truthy(token)
Answered200 == lastRequest # <<>> /\ lastCall.resp.status = 200
CacheIsResponse ==
    /\ accessToken = lastCall.resp.accessToken
    /\ refreshToken = lastCall.resp.refreshToken
TokensUnchanged == accessToken' = accessToken /\ refreshToken' = refreshToken

\* C7: both cached tokens are unset before the first call; a loginUser that
\* receives status 200 sets both to the response's tokens; a refreshSession
\* that receives status 200 overwrites both with the response's tokens; once a
\* token is set, no operation returns it to the unset state.
C7_TokenLifecycle ==
    /\ [](/\ lastCall.op = "none" => (Unset(accessToken) /\ Unset(refreshToken))
          /\ (lastCall.op = "loginUser" /\ Answered200) => CacheIsResponse
          /\ (lastCall.op = "refreshSession" /\ Answered200) => CacheIsResponse)
    /\ [][/\ ~Unset(accessToken) => ~Unset(accessToken')
          /\ ~Unset(refreshToken) => ~Unset(refreshToken')]_vars

\* C7 witness: a refreshSession answered 200 has overwritten tokens that a
\* login had cached (the request carried the cached refresh token, which
\* differs from the one now cached).
C7_Witness ==
    /\ lastCall.op = "refreshSession"
    /\ lastCall.providedRefreshToken = Undefined
    /\ Answered200
    /\ CacheIsResponse
    /\ lastRequest[1].body.refreshToken # refreshToken

NoRequestRaised == httpRaised' /\ lastRequest' = <<>>

\* C8: getCurrentUser with no access token cached, and refreshSession without
\* an explicit token with no refresh token cached, raise before any request is
\* issued; refreshSession with an explicit non-empty token issues its request
\* with that token even when nothing is cached.
C8_MissingCredential ==
    [][/\ (lastCall'.op = "getCurrentUser" /\ Unset(accessToken)) => NoRequestRaised
       /\ (/\ lastCall'.op = "refreshSession"
           /\ lastCall'.providedRefreshToken = Undefined
           /\ Unset(refreshToken)) => NoRequestRaised
       /\ (/\ lastCall'.op = "refreshSession"
           /\ lastCall'.providedRefreshToken.t = "string"
           /\ Len(lastCall'.providedRefreshToken.s) > 0)
            => (/\ Len(lastRequest') = 1
                /\ lastRequest'[1].body.refreshToken = lastCall'.providedRefreshToken)]_vars

\* C8 witness: getCurrentUser has raised with nothing cached and no request issued.
C8_Witness ==
    /\ lastCall.op = "getCurrentUser"
    /\ Unset(accessToken)
    /\ httpRaised
    /\ lastRequest = <<>>

\* C9: getProductByCategory(c) requests the products-by-category path of c.
C9_RequestPathNamesCategory ==
    lastCall.op = "getProductByCategory" =>
        /\ Len(lastRequest) = 1
        /\ lastRequest[1].method = "GET"
        /\ lastRequest[1].url = <<"products", "category", lastCall.category>>

\* C10: a loginUser or refreshSession not answered 200, a call that raises for
\* a missing credential, every getCurrentUser and every other helper leave
\* both cached tokens as they were; the tokens change only on a 200 answer to
\* loginUser or refreshSession, and then both are taken from that response.
C10_TokenFrame ==
    [][/\ lastCall'.op \notin {"loginUser", "refreshSession"} => TokensUnchanged
       /\ (/\ lastCall'.op \in {"loginUser", "refreshSession"}
           /\ (lastRequest' = <<>> \/ lastCall'.resp.status # 200)) => TokensUnchanged
       /\ ~TokensUnchanged =>
            /\ lastCall'.op \in {"loginUser", "refreshSession"}
            /\ Len(lastRequest') = 1
            /\ lastCall'.resp.status = 200
            /\ accessToken' = lastCall'.resp.accessToken
            /\ refreshToken' = lastCall'.resp.refreshToken]_vars

\* C10 witness: a loginUser answered 201 has failed and left the tokens of an
\* earlier login in the cache.
C10_Witness ==
    /\ lastCall.op = "loginUser"
    /\ lastCall.resp.status = 201
    /\ httpRaised
    /\ ~Unset(accessToken)
    /\ ~Unset(refreshToken)
    /\ accessToken # lastCall.resp.accessToken

====
